---- MODULE Spec2Model ----
(***************************************************************************)
(* A model of tombstone/tombstone.py: the Tombstone scanner object, its    *)
(* update() scan cycle (directory selection, age computation,              *)
(* classification, marking, notification), its setters, and the            *)
(* filesystem and clock it reads.                                          *)
(*                                                                         *)
(* Paths are sequences of names (os.path.join is Append, the number of     *)
(* separators of a path is its length).  Time is integer seconds.          *)
(***************************************************************************)
EXTENDS Integers, Sequences, FiniteSets, TLC

\* ------------------------------------------------------------- bounds

\* The clock runs from 0 to MaxNow.
MaxNow == 2
\* Thresholds a scanner is configured with: 0..MaxThreshold.
MaxThreshold == 1
\* Recursive-inspection depths a scanner is configured with: 0..MaxDepth.
MaxDepth == 1
\* Selection levels a scanner is configured with: 0..MaxLevel.
MaxLevel == 2

\* ---------------------------------------------------------- the tree

None == "None"
\* self._filename of __init__
DefaultFilename == "download_complete.txt"

Root == <<>>
DirA == <<"a">>
DirB == <<"b">>
DirAC == <<"a", "c">>
FileAF == <<"a", "f">>
DirACG == <<"a", "c", "g">>
Missing == <<"zz">>

join(d, x) == Append(d, x)

\* The directories and files that exist from the start.
BaseDirs == {Root, DirA, DirB, DirAC, DirACG}
BaseFiles == {FileAF}
\* Every path the model can name; a path's listing position is its index.
Order ==
  << Root, join(Root, DefaultFilename), DirA, DirB, Missing,
     join(DirA, DefaultFilename), DirAC, FileAF, join(DirB, DefaultFilename),
     join(DirAC, DefaultFilename), DirACG, join(DirACG, DefaultFilename) >>
Paths == {Order[i] : i \in 1..Len(Order)}

VARIABLES
  now,        \* the wall clock
  fs,         \* path -> [kind, mtime]
  denied,     \* directories whose mode denies reading and writing (--x)
  directory,  \* self._directory
  filename,   \* self._filename
  level,      \* self._level
  depth,      \* self._depth
  threshold,  \* self._threshold
  files,      \* self._files
  queue,      \* self._queue
  monitor,    \* self._monitor
  static,     \* self._static
  call,       \* the update call that made this state, if one did
  ret,        \* what that call returned or raised
  sent,       \* the messages the transport accepted during that call
  prev,       \* the update call right before that one, and how it ended
  main        \* main(): its arguments and its place in the scan loop

vars == << now, fs, denied, directory, filename, level, depth, threshold,
           files, queue, monitor, static, call, ret, sent, prev, main >>

config == << directory, filename, level, depth, threshold, files, queue >>

\* ------------------------------------------------- filesystem reads

Min(a, b) == IF a < b THEN a ELSE b

\* os.path.isdir
isdir(f, p) == p \in Paths /\ f[p].kind = "dir"

\* os.path.exists
exists(f, p) == p \in Paths /\ f[p].kind # "none"

\* os.path.getmtime
getmtime(f, p) == f[p].mtime

IsChild(d, p) == Len(p) = Len(d) + 1 /\ SubSeq(p, 1, Len(d)) = d

\* os.listdir raises on a path that is no directory or denies listing
CanList(f, dn, d) == d \in Paths /\ f[d].kind = "dir" /\ d \notin dn

\* os.listdir(d), as full paths, in listing order
listdir(f, d) ==
  SelectSeq(Order, LAMBDA p : IsChild(d, p) /\ f[p].kind # "none")

\* --------------------------------------------------- get_dirs_list

\* the subdirectories of every directory of dlist, in order (the for loop
\* of get_dirs_list, line 169-170)
RECURSIVE subdirs_of(_, _, _, _)
subdirs_of(f, dn, dlist, i) ==
  IF i > Len(dlist) THEN <<>>
  ELSE SelectSeq(listdir(f, dlist[i]), LAMBDA p : isdir(f, p))
       \o subdirs_of(f, dn, dlist, i + 1)

\* the while loop of get_dirs_list; raised when a listing fails
RECURSIVE expand(_, _, _, _, _, _, _, _)
expand(f, dn, dlist, dlevel, levels, continuous, outlist, finished) ==
  IF ~(dlevel < levels /\ ~finished)
  THEN [raised |-> FALSE, out |-> outlist]
  ELSE IF \E i \in 1..Len(dlist) : ~CanList(f, dn, dlist[i])
  THEN [raised |-> TRUE, out |-> <<>>]
  ELSE LET ilist == subdirs_of(f, dn, dlist, 1)
           fin == Len(ilist) = 0
           dl == dlevel + 1
           out2 == IF fin THEN outlist
                   ELSE IF continuous THEN outlist \o ilist
                   ELSE IF dl = levels THEN ilist
                   ELSE outlist
       IN expand(f, dn, ilist, dl, levels, continuous, out2, fin)

\* the filter on the tombstone file (line 184-185)
HasTombstone(f, fname, x) == exists(f, join(x, fname))

\* the filter without its test
KeepDir_All(f, fname, x) == TRUE

\* the filter testing the directories above x as well
KeepDir_Ancestors(f, fname, x) ==
  \A k \in 0..Len(x) : ~HasTombstone(f, fname, SubSeq(x, 1, k))

KeepDir(f, fname, x) == ~HasTombstone(f, fname, x)

\* the selection keeping every level it passes
get_dirs_list_Accumulate(f, dn, fname, directories, levels, continuous) ==
  LET e == expand(f, dn, directories, 0, levels, TRUE, <<>>, FALSE)
      kept == IF fname # None
              THEN SelectSeq(e.out, LAMBDA x : KeepDir(f, fname, x))
              ELSE e.out
  IN [raised |-> e.raised,
      out |-> [i \in 1..Len(kept) |->
                 [name |-> kept[i], age |-> getmtime(f, kept[i])]]]

get_dirs_list(f, dn, fname, directories, levels, continuous) ==
  LET e == expand(f, dn, directories, 0, levels, continuous, <<>>, FALSE)
      kept == IF fname # None
              THEN SelectSeq(e.out, LAMBDA x : KeepDir(f, fname, x))
              ELSE e.out
  IN [raised |-> e.raised,
      out |-> [i \in 1..Len(kept) |->
                 [name |-> kept[i], age |-> getmtime(f, kept[i])]]]

\* --------------------------------------------------- walk_to_depth

\* the pruning, one level late
Prune_Late(current_level, base_level, dp) == (current_level - base_level) > dp

\* os.walk prunes below a root once dirs is emptied (line 147-148)
Prune(current_level, base_level, dp) == (current_level - base_level) >= dp

\* The roots os.walk visits, top-down, with the pruning of line 147-148.
\* A directory that cannot be listed is skipped silently by os.walk.
RECURSIVE walk_roots(_, _, _, _, _)
RECURSIVE walk_each(_, _, _, _, _, _)
walk_roots(f, dn, root, base_level, dp) ==
  IF ~CanList(f, dn, root) THEN <<>>
  ELSE LET dirs == SelectSeq(listdir(f, root), LAMBDA p : f[p].kind = "dir")
           below == IF Prune(Len(root), base_level, dp) THEN <<>> ELSE dirs
       IN <<root>> \o walk_each(f, dn, below, 1, base_level, dp)
walk_each(f, dn, dirs, i, base_level, dp) ==
  IF i > Len(dirs) THEN <<>>
  ELSE walk_roots(f, dn, dirs[i], base_level, dp)
       \o walk_each(f, dn, dirs, i + 1, base_level, dp)

walk_to_depth(f, dn, dir, dp) == walk_roots(f, dn, dir, Len(dir), dp)

\* ------------------------------------------------------------ update

\* "if age < self.monitor[d]['age']" over a list of entries (line 251-261)
RECURSIVE refine(_, _, _, _, _)
refine(f, ts, entries, i, age) ==
  IF i > Len(entries) THEN age
  ELSE refine(f, ts, entries, i + 1, Min(age, ts - getmtime(f, entries[i])))

\* the entries of one visited root, the files flag ignored
Inspected_Files(f, root, fl) ==
  SelectSeq(listdir(f, root), LAMBDA p : f[p].kind \in {"dir", "file"})

\* the entries of one visited root that update looks at
Inspected(f, root, fl) ==
  SelectSeq(listdir(f, root),
            LAMBDA p : f[p].kind = "dir" \/ (fl /\ f[p].kind = "file"))

\* the loop over the walk of one monitored directory (line 248-261)
RECURSIVE refine_walk(_, _, _, _, _, _)
refine_walk(f, ts, roots, i, fl, age) ==
  IF i > Len(roots) THEN age
  ELSE refine_walk(f, ts, roots, i + 1, fl,
                   refine(f, ts, Inspected(f, roots[i], fl), 1, age))

\* the age of one monitored directory after lines 242-261
freshness(f, dn, ts, e, dp, fl) ==
  refine_walk(f, ts, walk_to_depth(f, dn, e.name, dp), 1, fl, ts - e.age)

\* list.sort(key=age): stable insertion into an ascending list (line 264)
Before(x, y) == x.age <= y.age

RECURSIVE insert(_, _, _)
insert(sorted, i, e) ==
  IF i > Len(sorted) THEN Append(sorted, e)
  ELSE IF Before(sorted[i], e) THEN insert(sorted, i + 1, e)
  ELSE SubSeq(sorted, 1, i - 1) \o <<e>> \o SubSeq(sorted, i, Len(sorted))

RECURSIVE sort(_, _, _)
sort(list, i, acc) ==
  IF i > Len(list) THEN acc ELSE sort(list, i + 1, insert(acc, 1, list[i]))

\* the comparison, not strict
IsStatic_AtLeast(age, thr) == age >= thr

\* the comparison of line 267
IsStatic(age, thr) == age > thr

\* self.make_obituary, the timestamp being the clock's reading
make_obituary(ts, tombname) ==
  [role |-> "user",
   content |-> [sender |-> "tombstone", timestamp |-> ts, filename |-> tombname]]

\* open(tombname, 'w') raises when the directory denies writing
CanCreate(f, dn, d) == d \in Paths /\ f[d].kind = "dir" /\ d \notin dn

\* the file open(tombname, 'w') leaves behind, and its directory's new mtime
create(f, ts, d, tombname) ==
  [f EXCEPT ![tombname] = [kind |-> "file", mtime |-> ts],
            ![d] = [kind |-> "dir", mtime |-> ts]]

\* the marking loop (line 272-278); it stops at the first exception
\* (os.path.join on a filename of None, or open)
RECURSIVE mark(_, _, _, _, _, _)
mark(dn, ts, fname, st, i, acc) ==
  IF i > Len(st) THEN acc
  ELSE IF fname = None \/ ~CanCreate(acc.fs, dn, st[i].name)
  THEN [acc EXCEPT !.raised = TRUE]
  ELSE LET tombname == join(st[i].name, fname)
       IN mark(dn, ts, fname, st, i + 1,
               [fs |-> create(acc.fs, ts, st[i].name, tombname),
                retlist |-> Append(acc.retlist, tombname),
                msglist |-> Append(acc.msglist, make_obituary(ts, tombname)),
                raised |-> FALSE])

\* a list attribute that may still be None
NoList == [none |-> TRUE, items |-> <<>>]
List(items) == [none |-> FALSE, items |-> items]

\* what a call left behind: nothing yet, a returned list, or an exception
NoCall == [kind |-> "none", value |-> <<>>]
Returned(v) == [kind |-> "returned", value |-> v]
Level0(v) == [kind |-> "level0", value |-> v]
Raised(where) == [kind |-> "raised", value |-> <<where>>]

\* whether a call was made, and its argument
Idle == [made |-> FALSE, make_tombstones |-> FALSE]
Called(mt) == [made |-> TRUE, make_tombstones |-> mt]
NoPrev == [made |-> FALSE, make_tombstones |-> FALSE, kind |-> "none"]

\* --wait: absent (None) or a number of seconds
NoWait == [given |-> FALSE, secs |-> 0]
Wait(secs) == [given |-> TRUE, secs |-> secs]

\* main() not running: the scanner is driven by a caller of its own
NoMain == [pc |-> "none", wait |-> NoWait, verbose |-> FALSE, info |-> FALSE,
           scanning |-> FALSE, n_monitor |-> 0 - 1, cycles |-> 0]

\* main() about to enter its loop (line 323, 334), no cycle run yet
Started(wait, verbose, info) ==
  [pc |-> "scan", wait |-> wait, verbose |-> verbose, info |-> info,
   scanning |-> TRUE, n_monitor |-> 0 - 1, cycles |-> 0]

\* the return of line 236: one [directory, age] pair
level0_result(f, ts, dir) == << <<dir, ts - getmtime(f, dir)>> >>

\* send_obituary over msglist (line 280-282): nothing is sent without a
\* queue; with one, a transport that is down raises on the first message
transport_raises(q, msglist, up) == q # None /\ Len(msglist) > 0 /\ ~up
delivered(q, msglist, up) == IF q # None /\ up THEN msglist ELSE <<>>

\* Tombstone.update: the attributes, filesystem, outcome and messages it
\* leaves, given the transport's state
update(make_tombstones, up) ==
  LET timestamp == now
      same == [monitor |-> monitor, static |-> static, fs |-> fs, sent |-> <<>>]
  IN IF level = 0
     THEN IF exists(fs, directory)
          THEN same @@ [ret |-> Level0(level0_result(fs, timestamp, directory))]
          ELSE same @@ [ret |-> Raised("getmtime")]
     ELSE
     LET sel == get_dirs_list(fs, denied, filename, <<directory>>, level, FALSE)
     IN IF sel.raised THEN same @@ [ret |-> Raised("listdir")]
        ELSE
        LET aged == [i \in 1..Len(sel.out) |->
                       [name |-> sel.out[i].name,
                        age |-> freshness(fs, denied, timestamp, sel.out[i],
                                          depth, files)]]
            mon == sort(aged, 1, <<>>)
            st == SelectSeq(mon, LAMBDA x : IsStatic(x.age, threshold))
            m == IF make_tombstones
                 THEN mark(denied, timestamp, filename, st, 1,
                           [fs |-> fs, retlist |-> <<>>, msglist |-> <<>>,
                            raised |-> FALSE])
                 ELSE [fs |-> fs, retlist |-> <<>>, msglist |-> <<>>,
                       raised |-> FALSE]
            base == [monitor |-> List(mon), static |-> List(st), fs |-> m.fs]
        IN IF m.raised
           THEN base @@ [sent |-> <<>>,
                         ret |-> Raised(IF filename = None THEN "join" ELSE "open")]
           ELSE IF transport_raises(queue, m.msglist, up)
           THEN base @@ [sent |-> <<>>, ret |-> Raised("publish")]
           ELSE base @@ [sent |-> delivered(queue, m.msglist, up),
                         ret |-> Returned(m.retlist)]

\* ------------------------------------------------------- the state

\* host, port and queue name of --queue
Queue == <<"mq", 5672, "obits">>

FreshFs ==
  [p \in Paths |->
     IF p \in BaseDirs THEN [kind |-> "dir", mtime |-> 0]
     ELSE IF p \in BaseFiles THEN [kind |-> "file", mtime |-> 0]
     ELSE [kind |-> "none", mtime |-> 0]]

\* Tombstone.__init__(directory, level, depth, threshold), then the
\* attributes main() sets (filename, files, queue)
Constructed(dir, lv, dp, thr, fname, fl, q) ==
  /\ directory = dir
  /\ level = lv
  /\ depth = dp
  /\ threshold = thr
  /\ filename = fname
  /\ files = fl
  /\ queue = q
  /\ monitor = NoList
  /\ static = NoList

World ==
  /\ now = 0
  /\ fs = FreshFs
  /\ denied = {}
  /\ call = Idle
  /\ ret = NoCall
  /\ sent = <<>>
  /\ prev = NoPrev
  /\ main = NoMain

\* A scanner set up as main() does, on the root, with file inspection off
\* and immediate children inspected.
Init ==
  /\ World
  /\ \E lv \in 0..MaxLevel, thr \in 0..MaxThreshold,
        fname \in {None, DefaultFilename}, q \in {None, Queue} :
       Constructed(Root, lv, 0, thr, fname, FALSE, q)

\* A scanner in --info mode below the root, for every inspection depth
\* and file flag.
InitAge ==
  /\ World
  /\ \E lv \in 1..MaxLevel, dp \in 0..MaxDepth, fl \in BOOLEAN :
       Constructed(Root, lv, dp, MaxThreshold, DefaultFilename, fl, None)

\* ----------------------------------------------------- environment

Quiet ==
  /\ call' = Idle
  /\ ret' = NoCall
  /\ sent' = <<>>
  /\ prev' = NoPrev
  /\ UNCHANGED main

\* a second passes
Tick ==
  /\ now < MaxNow
  /\ now' = now + 1
  /\ Quiet
  /\ UNCHANGED << fs, denied, config, monitor, static >>

\* something else writes to an existing file or directory
Touch(p) ==
  /\ fs[p].kind # "none"
  /\ fs[p].mtime # now
  /\ fs' = [fs EXCEPT ![p].mtime = now]
  /\ Quiet
  /\ UNCHANGED << now, denied, config, monitor, static >>

\* the permissions of a directory are taken away or given back
Chmod(d) ==
  /\ fs[d].kind = "dir"
  /\ denied' = IF d \in denied THEN denied \ {d} ELSE denied \cup {d}
  /\ Quiet
  /\ UNCHANGED << now, fs, config, monitor, static >>

\* ------------------------------------------------------- the calls

\* what t.update(make_tombstones) does to the scanner and the world, with
\* the transport up or down
UpdateCall(make_tombstones, up) ==
  \E r \in {update(make_tombstones, up)} :
     /\ monitor' = r.monitor
     /\ static' = r.static
     /\ fs' = r.fs
     /\ call' = Called(make_tombstones)
     /\ ret' = r.ret
     /\ sent' = r.sent
     /\ prev' = [made |-> call.made, make_tombstones |-> call.make_tombstones,
                  kind |-> ret.kind]
     /\ UNCHANGED << now, denied, config >>

\* t.update(make_tombstones) called on the scanner directly
Update(make_tombstones, up) ==
  /\ UpdateCall(make_tombstones, up)
  /\ UNCHANGED main

\* what the environment writes to and whose permissions it changes
Touched == {DirA, DirB, DirAC}
Deniable == {DirB}
TouchedAge == {DirA, DirAC, FileAF, DirACG}

Next ==
  \/ Tick
  \/ \E p \in Touched : Touch(p)
  \/ \E d \in Deniable : Chmod(d)
  \/ \E mt \in BOOLEAN, up \in BOOLEAN : Update(mt, up)

Spec == Init /\ [][Next]_vars

NextAge ==
  \/ Tick
  \/ \E p \in TouchedAge : Touch(p)
  \/ Update(FALSE, TRUE)

SpecAge == InitAge /\ [][NextAge]_vars

\* ------------------------------------------------------ the setters

\* a setter's outcome: it returned (nothing is left) or raised ValueError
SetterDone(ok) ==
  /\ call' = Idle
  /\ ret' = IF ok THEN NoCall ELSE Raised("ValueError")
  /\ sent' = <<>>
  /\ prev' = NoPrev
  /\ UNCHANGED main

\* the directory setter (line 53-57)
SetDirectory(value) ==
  /\ directory' = IF isdir(fs, value) THEN value ELSE directory
  /\ SetterDone(isdir(fs, value))
  /\ UNCHANGED << now, fs, denied, filename, level, depth, threshold, files,
                  queue, monitor, static >>

\* the threshold setter (line 109-113)
SetThreshold(value) ==
  /\ threshold' = IF value < 0 THEN threshold ELSE value
  /\ SetterDone(~(value < 0))
  /\ UNCHANGED << now, fs, denied, directory, filename, level, depth, files,
                  queue, monitor, static >>

\* the paths and thresholds a caller may hand to the constructor and setters
GivenPaths == {Root, DirA, FileAF, Missing}
GivenThresholds == (0 - 1)..MaxThreshold

\* Tombstone(directory, level, depth, threshold) as main() calls it, for
\* whatever path and threshold the command line gives
InitSetup ==
  /\ World
  /\ \E dir \in GivenPaths, lv \in 0..1, thr \in GivenThresholds :
       Constructed(dir, lv, 0, thr, DefaultFilename, FALSE, None)

NextSetup ==
  \/ Tick
  \/ Touch(DirA)
  \/ \E v \in GivenPaths : SetDirectory(v)
  \/ \E v \in GivenThresholds : SetThreshold(v)
  \/ \E mt \in BOOLEAN : Update(mt, TRUE)

SpecSetup == InitSetup /\ [][NextSetup]_vars

\* the level setter (line 82-84)
SetLevel(value) ==
  /\ level' = value
  /\ SetterDone(TRUE)
  /\ UNCHANGED << now, fs, denied, directory, filename, depth, threshold,
                  files, queue, monitor, static >>

\* the directories a caller moves the scanner between
GivenRoots == {Root, DirA, DirB}

\* A scanner whose caller changes its base directory and level between
\* cycles, on a filesystem whose permissions are left alone.
InitLevels ==
  /\ World
  /\ \E dir \in GivenRoots, lv \in 0..MaxLevel :
       Constructed(dir, lv, 0, 0, DefaultFilename, FALSE, None)

NextLevels ==
  \/ Tick
  \/ Touch(DirAC)
  \/ \E v \in GivenRoots : SetDirectory(v)
  \/ \E v \in 0..MaxLevel : SetLevel(v)
  \/ \E mt \in BOOLEAN : Update(mt, TRUE)

SpecLevels == InitLevels /\ [][NextLevels]_vars

\* the directories whose permissions change while marking is retried
DeniableRetry == {DirA, DirB}

\* A scanner one level below the root that marks in every cycle, as
\* main() runs it with a tombstone filename and without --info.
InitRetry ==
  /\ World
  /\ Constructed(Root, 1, 0, 0, DefaultFilename, FALSE, None)

NextRetry ==
  \/ Tick
  \/ \E p \in DeniableRetry : Touch(p)
  \/ \E d \in DeniableRetry : Chmod(d)
  \/ Update(TRUE, TRUE)

SpecRetry == InitRetry /\ [][NextRetry]_vars

\* ------------------------------------------------------- main()

\* One pass of the while loop up to the pause (line 337-347): the update
\* call, the log line per returned item, the verbose count. An exception
\* of update, of "Created tombstone: " + f when f is not a string, or of
\* len(t.monitor) when monitor is None, ends main().
MainCycle(up) ==
  /\ main.pc = "scan"
  /\ UpdateCall(filename # None /\ ~main.info, up)
  /\ LET scanning == main.wait.given
         log_raises == ret'.kind = "level0"
         len_raises == main.verbose /\ monitor'.none
         crashed == ret'.kind = "raised" \/ log_raises \/ len_raises
     IN main' = [main EXCEPT
                   !.scanning = scanning,
                   !.cycles = Min(@ + 1, 2),
                   !.n_monitor = IF ~crashed /\ main.verbose
                                 THEN Len(monitor'.items) ELSE @,
                   !.pc = IF crashed THEN "crashed"
                          ELSE IF scanning THEN "sleep" ELSE "done"]

\* the loop stops after the pause
MainSleep_Exit ==
  /\ main.pc = "sleep"
  /\ main' = [main EXCEPT !.pc = "done"]
  /\ call' = Idle /\ ret' = NoCall /\ sent' = <<>> /\ prev' = NoPrev
  /\ UNCHANGED << now, fs, denied, config, monitor, static >>

\* time.sleep(args.wait) (line 350-351) and the return to the loop test;
\* the seconds slept pass as Tick steps, a negative number raises
\* ValueError
MainSleep ==
  /\ main.pc = "sleep"
  /\ main' = [main EXCEPT !.pc = IF main.wait.secs < 0 THEN "crashed"
                                 ELSE "scan"]
  /\ call' = Idle /\ ret' = NoCall /\ sent' = <<>> /\ prev' = NoPrev
  /\ UNCHANGED << now, fs, denied, config, monitor, static >>

\* the values --wait is given
GivenWaits == {NoWait, Wait(0 - 1), Wait(0), Wait(1)}

\* main() after its setup (line 318-334), on the root, for every level,
\* tombstone filename, --wait, --verbose and --info
InitMain ==
  /\ now = 0 /\ fs = FreshFs /\ denied = {}
  /\ call = Idle /\ ret = NoCall /\ sent = <<>> /\ prev = NoPrev
  /\ \E lv \in 0..MaxLevel, fname \in {None, DefaultFilename},
        w \in GivenWaits, v \in BOOLEAN, i \in BOOLEAN :
       /\ Constructed(Root, lv, 0, 0, fname, FALSE, None)
       /\ main = Started(w, v, i)

NextMain ==
  \/ Tick
  \/ Touch(DirA)
  \/ Chmod(DirB)
  \/ MainCycle(TRUE)
  \/ MainSleep

SpecMain == InitMain /\ [][NextMain]_vars

\* what is written to while the loop runs
TouchedLive == {DirA, DirAC}

\* main() scanning repeatedly and marking, at a level below the root
InitLive ==
  /\ now = 0 /\ fs = FreshFs /\ denied = {}
  /\ call = Idle /\ ret = NoCall /\ sent = <<>> /\ prev = NoPrev
  /\ \E lv \in 1..MaxLevel, thr \in 0..MaxThreshold, dp \in 0..MaxDepth,
        w \in {Wait(0), Wait(1)} :
       /\ Constructed(Root, lv, dp, thr, DefaultFilename, FALSE, None)
       /\ main = Started(w, FALSE, FALSE)

NextLive ==
  \/ Tick
  \/ \E p \in TouchedLive : Touch(p)
  \/ MainCycle(TRUE)
  \/ MainSleep

\* what a MainCycle step does to main: the loop leaves the head of the
\* while, one more cycle counted; no other step does
CycleTaken ==
  /\ main.pc = "scan"
  /\ main' \in {[main EXCEPT !.pc = p, !.scanning = main.wait.given,
                              !.cycles = Min(@ + 1, 2), !.n_monitor = n] :
                   p \in {"sleep", "done", "crashed"},
                   n \in (0 - 1)..Cardinality(BaseDirs)}

\* main() is one thread that nothing else holds up: update returns and
\* the sleep ends, so each step of the loop is taken once it is due.
SpecLive ==
  /\ InitLive /\ [][NextLive]_vars
  /\ WF_main(CycleTaken)
  /\ WF_vars(MainSleep)

\* ------------------------------------------------- reading a state

\* the names of a list of entries
names(list) == {list[i].name : i \in 1..Len(list)}

\* the call that made this state got past directory selection
Scanned ==
  /\ call.made
  /\ \/ ret.kind = "returned"
     \/ ret.kind = "raised"
        /\ ret.value \in {<<"join">>, <<"open">>, <<"publish">>}

\* p lies below c
Below(c, p) == Len(p) > Len(c) /\ SubSeq(p, 1, Len(c)) = c

\* d holds a tombstone file in f
Marked(f, d) == f[join(d, DefaultFilename)].kind = "file"

\* the largest member of a non-empty set of numbers
Max(S) == CHOOSE m \in S : \A n \in S : n <= m

\* p is an entry at most k levels below c that a scan of c can see: a
\* directory, or with fl a file, every directory from c down to its parent
\* being listable
Seen(f, dn, c, p, k, fl) ==
  /\ Below(c, p)
  /\ Len(p) - Len(c) <= k
  /\ f[p].kind = "dir" \/ (fl /\ f[p].kind = "file")
  /\ \A j \in Len(c)..(Len(p) - 1) : SubSeq(p, 1, j) \notin dn

\* ts minus the most recent modification time among c and the entries a
\* scan of c can see down to k levels
ExpectedAge(f, dn, ts, c, k, fl) ==
  ts - Max({f[c].mtime} \cup {f[p].mtime : p \in {q \in Paths : Seen(f, dn, c, q, k, fl)}})

\* ----------------------------------------------------------- claims

\* C1 (monotonic exclusion): in every scan cycle that produces a monitor
\* set, a directory that held a tombstone file with the configured name
\* when the cycle began is not in that monitor set, whatever the
\* modification times of the directory and of what lies below it.
C1_MonotonicExclusion ==
  [][(level # 0 /\ Scanned')
       => \A d \in BaseDirs :
            (filename # None /\ Marked(fs, d)) => d \notin names(monitor'.items)]_vars

\* C1's case: a directory marked in an earlier second, written to since
\* (itself and below), and absent from the monitor set of this cycle.
C1_Witness ==
  /\ Scanned
  /\ level = 1
  /\ filename # None
  /\ Marked(fs, DirA)
  /\ fs[join(DirA, DefaultFilename)].mtime < fs[DirA].mtime
  /\ fs[join(DirA, DefaultFilename)].mtime < fs[DirAC].mtime
  /\ DirA \notin names(monitor.items)
  /\ DirB \in names(monitor.items)

\* C2 (idempotence): a completed marking cycle run right after a completed
\* marking cycle, nothing else having touched the filesystem, returns an
\* empty list, for every level from 0 up.
C2_Idempotence ==
  (/\ call.made /\ call.make_tombstones
   /\ prev.made /\ prev.make_tombstones
   /\ prev.kind \in {"returned", "level0"}
   /\ filename # None)
    => (ret.kind # "raised" /\ ret.value = <<>>)

\* C3 as the specification states it: the age of every monitored directory
\* is decided by the directory and the entries down to depth levels below it
\* (an entry at depth + 1 levels never changes it).
C3_AsStated ==
  Scanned =>
    \A i \in 1..Len(monitor.items) :
      LET e == monitor.items[i]
      IN e.age = ExpectedAge(fs, denied, now, e.name, depth, files)

\* C3, amended (depth boundary): with inspection depth D >= 0, every entry
\* down to D + 1 levels below a monitored directory bounds its age from
\* above, and the age is that of the directory itself or of one such entry:
\* an entry D + 2 levels below never changes it, one D + 1 levels below does.
C3_DepthBoundary ==
  Scanned =>
    \A i \in 1..Len(monitor.items) :
      LET e == monitor.items[i]
          seen == {p \in Paths : Seen(fs, denied, e.name, p, depth + 1, files)}
      IN /\ \A p \in seen : e.age <= now - fs[p].mtime
         /\ \E p \in seen \cup {e.name} : e.age = now - fs[p].mtime

\* C3's case: depth 0, the entry one level below (D + 1) is newer than the
\* directory and decides the age, the entry two levels below (D + 2) is
\* newer still and does not.
C3_Witness ==
  /\ Scanned
  /\ level = 1 /\ depth = 0
  /\ fs[DirA].mtime < fs[DirAC].mtime
  /\ fs[FileAF].mtime < fs[DirAC].mtime
  /\ fs[DirAC].mtime < fs[DirACG].mtime
  /\ \E i \in 1..Len(monitor.items) :
       /\ monitor.items[i].name = DirA
       /\ monitor.items[i].age = now - fs[DirAC].mtime

\* C4 (level 0): a cycle at level 0 on a root younger than the threshold
\* returns an empty result and creates no tombstone file.
C4_LevelZero ==
  (call.made /\ level = 0 /\ now - fs[directory].mtime < threshold)
    => (ret.kind # "raised" /\ ret.value = <<>> /\ ~Marked(fs, directory))

\* C5 (marking failures are isolated): when the static set of a marking
\* cycle holds several directories and one of them cannot take the
\* tombstone file, the cycle returns, and every other static directory
\* holds its tombstone file and is in the returned list.
C5_MarkingIsolated ==
  (/\ Scanned /\ call.make_tombstones
   /\ level # 0 /\ filename # None
   /\ Cardinality(names(static.items)) > 1
   /\ names(static.items) \cap denied # {})
    => /\ ret.kind = "returned"
       /\ \A d \in names(static.items) \ denied :
            /\ Marked(fs, d)
            /\ \E i \in 1..Len(ret.value) : ret.value[i] = join(d, filename)

\* the transport failed during the call that made this state
TransportFailed ==
  \/ ret.kind = "raised" /\ ret.value = <<"publish">>
  \/ ret.kind = "returned" /\ ret.value # <<>> /\ queue # None /\ sent = <<>>

\* C6 (transport failures are not fatal): a cycle during which publishing
\* fails still returns its list, and the tombstone files it wrote remain.
C6_TransportNonFatal ==
  (Scanned /\ TransportFailed)
    => /\ ret.kind = "returned"
       /\ \A d \in names(static.items) : Marked(fs, d)

\* C7 (configuration errors fail fast): no scan cycle runs on a root that
\* is not an existing directory, or with a negative threshold.
C7_FailFast ==
  call.made => (isdir(fs, directory) /\ threshold >= 0)

\* C8 (scan errors are not fatal): a cycle that meets a directory it
\* cannot list completes, with every unmarked directory of the selected
\* level that lies under listable directories in its monitor set.
C8_ScanErrorsNonFatal ==
  (/\ call.made /\ level # 0
   /\ \E d \in denied : Len(d) < level)
    => /\ Scanned
       /\ \A c \in BaseDirs :
            (/\ Len(c) = level
             /\ \A j \in 0..(Len(c) - 1) : SubSeq(c, 1, j) \notin denied)
              => (c \in names(monitor.items) \/ Marked(fs, c))

\* C9 (threshold boundary): in every cycle that classifies, a monitored
\* directory is in the static set exactly when its freshness age is
\* strictly greater than the threshold, and one whose age equals the
\* threshold gets no tombstone file.
C9_ThresholdBoundary ==
  [][(level # 0 /\ Scanned')
       => \A c \in names(monitor'.items) :
            LET age == ExpectedAge(fs, denied, now, c, depth + 1, files)
            IN /\ c \in names(static'.items) <=> age > threshold
               /\ age = threshold => fs'[join(c, DefaultFilename)].kind = "none"]_vars

\* C9's case: a marking cycle with one directory exactly at the threshold
\* (left alone) and one above it (marked).
C9_Witness ==
  /\ Scanned
  /\ call.make_tombstones
  /\ ret.kind = "returned"
  /\ level = 1
  /\ threshold > 0
  /\ \E i \in 1..Len(monitor.items) :
       /\ monitor.items[i].name = DirB
       /\ monitor.items[i].age = threshold
  /\ ~Marked(fs, DirB)
  /\ DirA \in names(static.items)
  /\ Marked(fs, DirA)
  /\ ret.value = <<join(DirA, DefaultFilename)>>

\* C10 (age correctness): the freshness age of a monitored directory is
\* the clock minus the most recent modification time among itself and the
\* entries inspected below it; with file inspection on, a child file newer
\* than the directory lowers the age to at most the clock minus the file's
\* time (exactly that when nothing inspected is newer); with file
\* inspection off, files do not count.
C10_AgeCorrectness ==
  Scanned =>
    \A i \in 1..Len(monitor.items) :
      LET e == monitor.items[i]
          kids == {p \in Paths : Below(e.name, p) /\ Len(p) = Len(e.name) + 1
                                 /\ fs[p].kind = "file"}
          dirs == {p \in Paths : Seen(fs, denied, e.name, p, depth + 1, FALSE)}
          newest == Max({fs[p].mtime : p \in dirs \cup kids \cup {e.name}})
      IN /\ e.age = ExpectedAge(fs, denied, now, e.name, depth + 1, files)
         /\ files =>
              \A p \in kids :
                fs[p].mtime > fs[e.name].mtime =>
                  /\ e.age <= now - fs[p].mtime
                  /\ fs[p].mtime = newest => e.age = now - fs[p].mtime
         /\ ~files => e.age = now - Max({fs[p].mtime : p \in dirs \cup {e.name}})

\* C10's case: file inspection on, the child file newer than the directory
\* and than everything inspected, and the age is the file's.
C10_Witness ==
  /\ Scanned
  /\ files
  /\ level = 1
  /\ fs[FileAF].mtime > fs[DirA].mtime
  /\ fs[FileAF].mtime > fs[DirAC].mtime
  /\ fs[FileAF].mtime > fs[DirACG].mtime
  /\ now > fs[FileAF].mtime
  /\ \E i \in 1..Len(monitor.items) :
       /\ monitor.items[i].name = DirA
       /\ monitor.items[i].age = now - fs[FileAF].mtime

\* C11 (inspection mode): a cycle run without marking (no tombstone
\* filename on the command line, or --info) computes the monitor set and
\* the static set, creates no file, hands no event to the transport and
\* returns an empty list.
C11_InspectionMode ==
  [][(call'.made /\ ~call'.make_tombstones)
       => /\ ~monitor'.none /\ ~static'.none
          /\ fs' = fs
          /\ sent' = <<>>
          /\ ret'.kind = "returned" /\ ret'.value = <<>>]_vars

\* the static directories that hold a tombstone file after the cycle that
\* made this state: the ones it marked, in static-set order
created == SelectSeq(static.items, LAMBDA e : Marked(fs, e.name))

\* C12 (one event per marking): in a cycle with a queue configured, the
\* tombstone files created are each followed by one event naming that
\* file, in static-set order, and nothing else is handed to the transport
\* (cycles the transport itself fails are left aside).
C12_OneEventPerMarking ==
  (/\ Scanned /\ queue # None
   /\ ~(ret.kind = "raised" /\ ret.value = <<"publish">>))
    => /\ Len(sent) = Len(created)
       /\ \A i \in 1..Len(sent) :
            sent[i].content.filename = join(created[i].name, DefaultFilename)

\* C15 (ordering): after a cycle the monitor set is sorted oldest first,
\* the entry with the largest age leading.
C15_OldestFirst ==
  Scanned =>
    \A i \in 1..Len(monitor.items), j \in 1..Len(monitor.items) :
      i < j => monitor.items[i].age >= monitor.items[j].age

\* C18 (writes are confined to the static set): a cycle changes only
\* tombstone paths (and, by creating them, their directories) of
\* directories of its static set, which were selected without a tombstone
\* file and have an age above the threshold; and the list update returns
\* is the sequence of tombstone paths it wrote.
C18_WritesConfined ==
  [][call'.made
       => /\ \A p \in Paths :
               fs'[p] # fs[p]
                 => \E d \in names(static'.items) :
                      /\ p \in {d, join(d, DefaultFilename)}
                      /\ Len(d) = Len(directory) + level
                      /\ ~Marked(fs, d)
                      /\ ExpectedAge(fs, denied, now, d, depth + 1, files) > threshold
          /\ ret'.kind # "raised"
               => ret'.value =
                    [i \in 1..Len(created') |-> join(created'[i].name, DefaultFilename)]]_vars

\* the directories exactly `level` levels below the base directory that
\* hold no tombstone file in f
AtLevel(f) ==
  {d \in BaseDirs : /\ isdir(f, d)
                    /\ Below(directory, d)
                    /\ Len(d) = Len(directory) + level
                    /\ ~Marked(f, d)}

\* C14 (selection, non-continuous): for level L >= 1 a cycle selects
\* exactly the directories L levels below the base directory that hold no
\* tombstone file, each once; branches that end above L give nothing, and
\* with nothing at level L the selection is the empty list, not an error.
C14_ExactLevel ==
  [][(call'.made /\ level >= 1)
       => /\ ret'.kind = "returned"
          /\ ~monitor'.none
          /\ names(monitor'.items) = AtLevel(fs)
          /\ Len(monitor'.items) = Cardinality(AtLevel(fs))]_vars

\* a cycle two levels below /b, which has no subdirectory: the expansion
\* ends one level early and the selection is empty
C14_Witness ==
  /\ call.made /\ directory = DirB /\ level = 2
  /\ ret = Returned(<<>>) /\ monitor = List(<<>>)

\* a is the base directory or lies between it and c
Above(a, c) == (a = directory \/ Below(directory, a)) /\ Below(a, c)

\* C16 (no state carried between cycles): after every completed update
\* call, at every level L >= 0, the monitor set holds exactly the
\* candidates of that call (the base directory itself at level 0) with
\* ages against that call's clock, and the static set exactly its members
\* older than the threshold, whatever an earlier cycle left.
C16_NoCarriedState ==
  [][(call'.made /\ ret'.kind \in {"returned", "level0"})
       => LET selected == IF level = 0 THEN {directory} ELSE AtLevel(fs)
          IN /\ ~monitor'.none /\ ~static'.none
             /\ names(monitor'.items) = selected
             /\ \A i \in 1..Len(monitor'.items) :
                  monitor'.items[i].age =
                    ExpectedAge(fs, denied, now, monitor'.items[i].name,
                                depth + 1, files)
             /\ static'.items =
                  SelectSeq(monitor'.items, LAMBDA e : e.age > threshold)]_vars

\* C20 (the filter looks at the selected level only): a tombstone file in
\* the base directory or in a directory between it and level L neither
\* stops the expansion nor excludes the directories below it; a
\* directory of level L is left out exactly when it holds one itself.
C20_FilterAtLevelOnly ==
  [][(call'.made /\ level >= 1)
       => \A c \in BaseDirs :
            (/\ Below(directory, c) /\ Len(c) = Len(directory) + level
             /\ \E a \in BaseDirs : Above(a, c) /\ Marked(fs, a))
              => /\ ~monitor'.none
                 /\ c \in names(monitor'.items) <=> ~Marked(fs, c)]_vars

\* a cycle on /a, which holds a tombstone file itself, selects /a/c
C20_Witness ==
  /\ call.made /\ directory = DirA /\ level = 1
  /\ Marked(fs, DirA)
  /\ DirAC \in names(monitor.items)

\* d is the static directory at which the last marking cycle stopped: the
\* first of its static set left without a tombstone file
FailedLast(d) ==
  /\ ~static.none
  /\ \E i \in 1..Len(static.items) :
       /\ static.items[i].name = d
       /\ ~Marked(fs, d)
       /\ \A j \in 1..(i - 1) : Marked(fs, static.items[j].name)

\* C17 (a failed marking is retried by the next cycle only): the cycle in
\* which creating a tombstone file fails leaves the directory without
\* one; the next cycle selects the directory again, and marks it if it
\* can be written by then and its age is still above the threshold.
C17_RetryNextCycle ==
  /\ []((call.made /\ ret = Raised("open"))
          => \E d \in BaseDirs : FailedLast(d) /\ ~CanCreate(fs, denied, d))
  /\ [][call'.made
          => \A d \in BaseDirs :
               FailedLast(d)
                 => /\ d \in names(monitor'.items)
                    /\ (/\ CanCreate(fs, denied, d)
                        /\ ExpectedAge(fs, denied, now, d, depth + 1, files)
                             > threshold)
                         => Marked(fs', d)]_vars

\* C13 (exit of the scan loop): without --wait main() runs one cycle and
\* ends normally; with --wait, whatever its value, level and verbosity,
\* the loop does not end: main() is in a cycle or in the pause between
\* two cycles.
C13_ScanLoopExit ==
  /\ ~main.wait.given
       => \/ main.pc = "scan" /\ main.cycles = 0
          \/ main.pc = "done" /\ main.cycles = 1
  /\ main.wait.given => main.pc \in {"scan", "sleep"}

\* the inspected subtree of c was last modified more than the threshold ago
Old(c) == ExpectedAge(fs, denied, now, c, depth + 1, files) > threshold

\* C19 (eventual marking): with main() scanning repeatedly and marking,
\* at a level L >= 1 and without errors, a directory of level L without
\* tombstone file that has grown older than the threshold gets one unless
\* it is modified again; it gets it in the first cycle that finds it that
\* old; and once it holds one no cycle selects it.
C19_EventuallyMarked ==
  /\ \A c \in BaseDirs :
       (c \in AtLevel(fs) /\ Old(c)) ~> (Marked(fs, c) \/ ~Old(c))
  /\ [][call'.made
          => \A c \in AtLevel(fs) : Old(c) => Marked(fs', c)]_vars
  /\ [][call'.made
          => \A c \in BaseDirs :
               Marked(fs, c) => c \notin names(monitor'.items)]_vars

\* a cycle after the first gives a directory its tombstone file
C19_Witness ==
  /\ call.made /\ main.cycles = 2
  /\ \E c \in names(static.items) :
       /\ fs[join(c, DefaultFilename)] = [kind |-> "file", mtime |-> now]
       /\ \E d \in BaseDirs \ {c} : Marked(fs, d) /\ fs[d].mtime < now

====
